---- MODULE Spec2Model ----
(***************************************************************************)
(* LocationService (services/LocationService.js, the variant with the      *)
(* simulator): the singleton that owns the socket.io transport, the        *)
(* connection flag, the cached location, the listener list and the demo    *)
(* simulator.  The socket.io client and the platform timers are the        *)
(* environment: they call the handlers the service registered.             *)
(*                                                                         *)
(* Coordinates are integers in units of 1e-4 degree.                       *)
(*                                                                         *)
(* Around the service: the Map screen (components/MapScreen.js), which     *)
(* connects, subscribes and polls the status; the TruckMarker component;   *)
(* getCurrentLocation of utils/locationPermissions.js; and the Admin       *)
(* screen (components/AdminScreen.js), which connects, subscribes, sends    *)
(* the coordinates its user entered and runs a position watcher.           *)
(***************************************************************************)
EXTENDS Integers, Sequences, FiniteSets, TLC

\* ---------------------------------------------------------------- bounds
MaxSockets   == 2      \* io() calls in one run
MaxSamples   == 2      \* location samples produced in one run
MaxListeners == 2      \* length of this.listeners
NumCallbacks == 2      \* distinct callback functions
LifecycleCallbacks == 1 \* distinct callback functions in the life-cycle runs
MaxErrors    == 2      \* connect_error events counted in one run
ReentrantSockets == 1  \* io() calls in one run with re-entrant callbacks
WalkMargin   == 5      \* distance of the walk's starting points from the limit, in units
MarkerRange  == 5      \* a coordinate's fields lie in -MarkerRange..MarkerRange
PosRange     == 3      \* a platform position's fields lie in -PosRange..PosRange
MaxText      == 3      \* characters in a coordinate field
MaxStarts    == 2      \* startAutoUpdate calls in one run
MaxAutoSends == 2      \* position updates a watcher delivers in one run

\* ------------------------------------------------------- program constants
Unit         == 10000      \* one degree, in units
LatLimit     == 900000     \* 90
LngLimit     == 1800000    \* 180
DemoStartLat == 258010     \* 25.8010
DemoStartLon == -801994    \* -80.1994
DemoMaxLat   == 258500     \* 25.85
DemoMinLat   == 257500     \* 25.75
DemoMaxLon   == -801500    \* -80.15
DemoMinLon   == -802500    \* -80.25

Callbacks == 1..NumCallbacks
SocketIds == 1..MaxSockets
NoSocket  == 0             \* this.socket = null

\* ------------------------------------------------------------------ values
NoLoc == [null |-> TRUE]   \* this.currentLocation = null

\* timestamps: absent, a string (ISO) or a number, with the instant t
TsAbsent  == [kind |-> "absent", t |-> 0]
TsIso(t)  == [kind |-> "iso", t |-> t]
TsNum(t)  == [kind |-> "num", t |-> t]

\* accuracy: a number, null or undefined (the field is not there)
AccNull  == -1
AccUndef == -2

\* payloads of the inbound `location` event: the two of the tests, one whose
\* timestamp is the number 0 (the epoch, in milliseconds), and one that carries
\* a demo field of its own
InData ==
  { [latitude |-> 257617, longitude |-> -801918, timestamp |-> TsIso(0), accuracy |-> 10],
    [latitude |-> 257617, longitude |-> -801918, timestamp |-> TsAbsent, accuracy |-> AccUndef],
    [latitude |-> 257617, longitude |-> -801918, timestamp |-> TsNum(0), accuracy |-> AccUndef],
    [latitude |-> 257617, longitude |-> -801918, timestamp |-> TsIso(0), accuracy |-> 10,
     demo |-> TRUE] }

\* arguments of sendLocation
OutLocs ==
  { [latitude |-> 257617, longitude |-> -801918, timestamp |-> TsIso(0), isBroadcasting |-> TRUE] }

\* Math.random() - 0.5) * 0.002 lies in [-0.001, 0.001): the extremes, in units
RandSteps == {-10, 9}

\* what a callback does when it is invoked: it returns or raises, or it calls
\* an unsubscribe closure or subscribe() and returns
Returns == [kind |-> "ok", cb |-> 0]
PlainReactions == { Returns, [kind |-> "throw", cb |-> 0] }
Reactions ==
  PlainReactions
    \cup { [kind |-> "unsub", cb |-> c] : c \in Callbacks }
    \cup { [kind |-> "sub", cb |-> c] : c \in Callbacks }

VARIABLES
  socket,            \* this.socket: NoSocket or the id of the transport
  isConnected,       \* this.isConnected
  listeners,         \* this.listeners
  reconnectAttempts, \* this.reconnectAttempts
  currentLocation,   \* this.currentLocation
  demoMode,          \* this.demoMode
  demoInterval,      \* this.demoInterval is set (the setInterval is scheduled)
  demoPos,           \* the closure's latitude, longitude, direction
  intervals,         \* setInterval timers of the simulator scheduled and not cleared
  socks,             \* transport state of every socket io() returned
  nextSock,          \* number of io() calls so far
  timers,            \* pending grace timers, named by the socket their connect() opened
  produced,          \* number of samples produced so far (the arrival clock)
  curSeq,            \* which sample the cached location is (0: none)
  handles,           \* callbacks for which subscribe() returned an unsubscribe closure
  unsubbed,          \* callbacks whose closure was called, and not subscribed again since
  throwers,          \* callbacks that raised in a fan-out, not unsubscribed or cleared since
  everUp,            \* some transport has been connected
  simAtDisconnect,   \* the last disconnect() tore a transport down with the simulator running
  op,                \* the last operation: its name, result, callback calls and emits
  screen,            \* the Map screen: its effect's phase and its React state
  marker,            \* a TruckMarker: its coordinate prop and what it rendered
  perm,              \* a call of getCurrentLocation of the permissions utility
  admin,             \* the Admin screen: its effect's phase, its React state, its watcher
  form               \* the Admin screen's coordinate fields and a press of Send Location

svc  == <<socket, isConnected, listeners, reconnectAttempts, currentLocation, demoMode>>
demo == <<demoInterval, demoPos, intervals>>
env  == <<socks, nextSock, timers, everUp>>
obs  == <<produced, curSeq, handles, unsubbed, throwers, simAtDisconnect, op>>
views == <<screen, marker, perm, admin, form>>
vars == <<svc, demo, env, obs, views>>

\* ---------------------------------------------------------------- helpers
Filter(s, c) == SelectSeq(s, LAMBDA x : x # c)

Range(s) == { s[i] : i \in DOMAIN s }

\* an operation's record: the callback or socket it concerned, its argument, what
\* it returned, whether it raised, the callback calls and transport emits it
\* made, how many io(), setTimeout and socket.connect() calls, how many
\* entries it took out of the listener list, and the callbacks that listeners
\* subscribed while it fanned a sample out, one entry for every subscribe call
Op(name) ==
  [ name |-> name, cb |-> 0, sock |-> NoSocket, arg |-> 0, ret |-> "none",
    threw |-> FALSE, calls |-> <<>>, emits |-> <<>>,
    opened |-> 0, armed |-> 0, manual |-> 0, removed |-> 0, subs |-> <<>> ]

\* the subscriber side threaded through a fan-out
Subs ==
  [ listeners |-> listeners, handles |-> handles, unsubbed |-> unsubbed,
    throwers |-> throwers, calls |-> <<>>, subs |-> <<>> ]

\* one invocation of callback c with sample number seq; `late`: c had been
\* unsubscribed before that sample was produced; `replay`: the call is the one
\* subscribe() makes, the others are a fan-out's
Call(c, loc, seq, threw, late) ==
  [ cb |-> c, loc |-> loc, seq |-> seq, threw |-> threw, late |-> late,
    replay |-> FALSE ]

\* ------------------------------------------------- subscribe / unsubscribe
\* unshift in place of push: the new listener goes first
RegisteredFirst(ls, c) == << c >> \o ls

\* this.listeners.push(callback)
Registered(ls, c) == Append(ls, c)

\* the filter with its test inverted: listener === callback
UnsubscribedInverted(ls, c) == SelectSeq(ls, LAMBDA x : x = c)

\* removal by position, splice(indexOf(callback), 1): without a match indexOf
\* is -1 and the last listener goes
UnsubscribedByIndex(ls, c) ==
  IF c \in Range(ls) THEN Filter(ls, c) ELSE SubSeq(ls, 1, Len(ls) - 1)

\* removal of one registration: the first entry that is the callback
UnsubscribedOnce(ls, c) ==
  IF c \notin Range(ls) THEN ls
  ELSE LET i == CHOOSE k \in DOMAIN ls : ls[k] = c /\ \A j \in 1..(k - 1) : ls[j] # c
       IN  SubSeq(ls, 1, i - 1) \o SubSeq(ls, i + 1, Len(ls))

\* this.listeners = this.listeners.filter(listener => listener !== callback)
Unsubscribed(ls, c) == Filter(ls, c)

\* the replay without its guard: callback(this.currentLocation), cached or not
ReplayCallsUnguarded(c, loc, seq, threw) ==
  << [ Call(c, loc, seq, threw, FALSE) EXCEPT !.replay = TRUE ] >>

\* if (this.currentLocation) callback(this.currentLocation)
ReplayCalls(c, loc, seq, threw) ==
  IF loc # NoLoc THEN << [ Call(c, loc, seq, threw, FALSE) EXCEPT !.replay = TRUE ] >>
                 ELSE << >>

\* the unsubscribe closure of c
UnsubIn(S, c) ==
  [ S EXCEPT !.listeners = Unsubscribed(@, c),
             !.unsubbed = @ \cup {c},
             !.throwers = @ \ {c} ]

\* subscribe(c) to its return, the replayed callback raising iff `threw`:
\* the exception leaves subscribe before the closure is returned
SubIn(S, c, loc, seq, threw) ==
  [ S EXCEPT !.listeners = Registered(@, c),
             !.subs = Append(@, c),
             !.calls = @ \o ReplayCalls(c, loc, seq, threw),
             !.handles = IF threw /\ loc # NoLoc THEN @ ELSE @ \cup {c},
             !.unsubbed = @ \ {c} ]

\* what the callback invoked at one position of a fan-out does to the service
React(S, r, loc, seq) ==
  CASE r.kind = "unsub" /\ r.cb \in S.handles -> UnsubIn(S, r.cb)
    [] r.kind = "sub" /\ Len(S.listeners) < MaxListeners -> SubIn(S, r.cb, loc, seq, FALSE)
    [] OTHER -> S

\* _notifyListeners(location): forEach walks the array it was started on, up to
\* the length it had then; an exception of a listener is caught and logged
\* the loop of forEach stopping at the listener that raised (no try/catch)
NextListenerUncaught(snap, i, threw) == IF threw THEN Len(snap) + 1 ELSE i + 1

\* try { listener(location) } catch (error) { ... }: the loop goes on to the next
\* listener whether or not this one raised
NextListener(snap, i, threw) == i + 1

\* a catch block that also removes the listener that raised
CaughtDeregistering(S, c, threw) ==
  IF threw THEN [ S EXCEPT !.listeners = Filter(@, c) ] ELSE S

\* catch (error) { console.error(...) }: the service is left as it was
Caught(S, c, threw) == S

\* a loop that reads this.listeners anew at every step: listeners subscribed
\* during the fan-out are visited too
WalkedLive(snap, live) == live

\* forEach visits the indices below the length the array had at the start, and
\* a subscribe during the fan-out only appends
Walked(snap, live) == snap

\* what the listener at position i does; a listener past the script returns
Reaction(script, i) == IF i \in DOMAIN script THEN script[i] ELSE Returns

RECURSIVE NotifyFrom(_, _, _, _, _, _)
NotifyFrom(snap, i, loc, seq, script, S) ==
  LET ls == Walked(snap, S.listeners)
  IN  IF i > Len(ls) THEN S
      ELSE LET threw  == Reaction(script, i).kind = "throw"
               called == [ S EXCEPT !.calls =
                             Append(@, Call(ls[i], loc, seq, threw, ls[i] \in unsubbed)),
                                    !.throwers = IF threw THEN @ \cup {ls[i]} ELSE @ ]
           IN  NotifyFrom(snap, NextListener(ls, i, threw), loc, seq, script,
                          React(Caught(called, ls[i], threw), Reaction(script, i), loc, seq))

NotifyListeners(loc, seq, script) == NotifyFrom(listeners, 1, loc, seq, script, Subs)

Scripts(R) == [ 1..Len(listeners) -> R ]

\* the subscriber side after a fan-out, and the calls it made
Fanned(S) ==
  /\ listeners' = S.listeners
  /\ handles' = S.handles
  /\ unsubbed' = S.unsubbed
  /\ throwers' = S.throwers

\* ------------------------------------------------------- around the service
\* no Map screen is mounted; the state is the one useState gives a new screen
NoScreen ==
  [ phase |-> "unmounted", truckLocation |-> NoLoc, isConnecting |-> TRUE,
    connectionError |-> FALSE, interval |-> FALSE ]

\* no TruckMarker is rendered
NoMarker == [ coordinate |-> NoLoc, output |-> "none" ]

\* getCurrentLocation of the permissions utility has not been called
NoPerm ==
  [ pc |-> "idle", permission |-> "none", position |-> NoLoc, positionCalls |-> 0,
    result |-> [state |-> "pending"] ]

\* no Admin screen is mounted; the state is the one useState gives a new screen
\* and the platform has no position watcher and no watcher start in flight
NoAdmin ==
  [ phase |-> "unmounted", currentLocation |-> NoLoc, isConnected |-> FALSE,
    interval |-> FALSE, everLeft |-> FALSE,
    autoUpdate |-> FALSE, locationWatcher |-> 0,
    starts |-> [ i \in 1..MaxStarts |-> "none" ], nextStart |-> 0,
    watchers |-> {}, autoSends |-> 0 ]

\* a screen's state put in place of adm, with what outlives the screen kept:
\* the platform's watchers, the watcher starts in flight and the record of what
\* has happened
Outliving(adm, state) ==
  [ state EXCEPT !.everLeft = adm.everLeft, !.starts = adm.starts,
                 !.nextStart = adm.nextStart, !.watchers = adm.watchers,
                 !.autoSends = adm.autoSends ]

\* the fields are empty and Send Location has not been pressed
NoForm ==
  [ latitude |-> << >>, longitude |-> << >>, pc |-> "idle", alert |-> "none",
    isSending |-> FALSE, sends |-> 0 ]

\* ------------------------------------------------------------ construction
Init ==
  /\ socket = NoSocket
  /\ isConnected = FALSE
  /\ listeners = << >>
  /\ reconnectAttempts = 0
  /\ currentLocation = NoLoc
  /\ demoMode = FALSE
  /\ demoInterval = FALSE
  /\ demoPos = [lat |-> 0, lon |-> 0, dir |-> 1]
  /\ intervals = 0
  /\ socks = [ s \in SocketIds |-> "none" ]
  /\ nextSock = 0
  /\ timers = {}
  /\ produced = 0
  /\ curSeq = 0
  /\ handles = {}
  /\ unsubbed = {}
  /\ throwers = {}
  /\ everUp = FALSE
  /\ simAtDisconnect = FALSE
  /\ op = Op("init")
  /\ screen = NoScreen
  /\ marker = NoMarker
  /\ perm = NoPerm
  /\ admin = NoAdmin
  /\ form = NoForm

\* ------------------------------------------------------------------ connect
\* the guard of connect(): if (this.socket && this.isConnected) return
AlreadyConnected == socket # NoSocket /\ isConnected

\* connect(url, enableDemo): io(url, ...), _setupEventHandlers(), setTimeout
Connect(enableDemo) ==
  /\ simAtDisconnect' = FALSE
  /\ IF AlreadyConnected
       THEN /\ op' = [ Op("connect") EXCEPT !.sock = socket ]
            /\ UNCHANGED <<socket, socks, nextSock, timers>>
       ELSE /\ nextSock < MaxSockets
            /\ nextSock' = nextSock + 1
            /\ socket' = nextSock + 1
            /\ socks' = [ socks EXCEPT ![nextSock + 1] = "opening" ]
            /\ timers' = IF enableDemo THEN timers \cup {nextSock + 1} ELSE timers
            /\ op' = [ Op("connect") EXCEPT !.sock = socket, !.opened = 1,
                                           !.armed = IF enableDemo THEN 1 ELSE 0 ]
  /\ UNCHANGED <<isConnected, listeners, reconnectAttempts, currentLocation, demoMode,
                 demo, everUp, produced, curSeq, handles, unsubbed, throwers>>

\* --------------------------------------------------------------- disconnect
\* disconnect() that leaves the listener list alone
DisconnectKeepingListeners ==
  /\ op' = Op("disconnect")
  /\ simAtDisconnect' = (demoInterval /\ socket # NoSocket)
  /\ IF socket # NoSocket
       THEN /\ socks' = [ socks EXCEPT ![socket] = "closed" ]
            /\ socket' = NoSocket
            /\ isConnected' = FALSE
            /\ currentLocation' = NoLoc
            /\ curSeq' = 0
       ELSE UNCHANGED <<socks, socket, isConnected, currentLocation, curSeq>>
  /\ UNCHANGED <<reconnectAttempts, demoMode, demo, nextSock, timers, everUp,
                 produced, handles, unsubbed, listeners, throwers>>

\* disconnect(): everything is inside if (this.socket)
Disconnect ==
  /\ op' = Op("disconnect")
  /\ simAtDisconnect' = (demoInterval /\ socket # NoSocket)
  /\ IF socket # NoSocket
       THEN /\ socks' = [ socks EXCEPT ![socket] = "closed" ]
            /\ socket' = NoSocket
            /\ isConnected' = FALSE
            /\ listeners' = << >>
            /\ currentLocation' = NoLoc
            /\ curSeq' = 0
            /\ throwers' = {}
       ELSE UNCHANGED <<socks, socket, isConnected, listeners, currentLocation, curSeq,
                        throwers>>
  /\ UNCHANGED <<reconnectAttempts, demoMode, demo, nextSock, timers, everUp,
                 produced, handles, unsubbed>>

\* socket.connect() on a transport: it opens one that is neither open nor opening
Reopened(st) == IF st = "idle" THEN "opening" ELSE st

\* reconnect() without its test: this.socket.connect(), which raises a TypeError
\* when this.socket is null
ReconnectUnguarded ==
  /\ op' = [ Op("reconnect") EXCEPT !.manual = IF socket # NoSocket THEN 1 ELSE 0,
                                    !.threw = (socket = NoSocket) ]
  /\ socks' = IF socket # NoSocket
                THEN [ socks EXCEPT ![socket] = Reopened(@) ]
                ELSE socks
  /\ UNCHANGED <<svc, demo, nextSock, timers, everUp,
                 produced, curSeq, handles, unsubbed, throwers, simAtDisconnect>>

\* reconnect(): if (this.socket) this.socket.connect()
Reconnect ==
  /\ op' = [ Op("reconnect") EXCEPT !.manual = IF socket # NoSocket THEN 1 ELSE 0 ]
  /\ socks' = IF socket # NoSocket
                THEN [ socks EXCEPT ![socket] = Reopened(@) ]
                ELSE socks
  /\ UNCHANGED <<svc, demo, nextSock, timers, everUp,
                 produced, curSeq, handles, unsubbed, throwers, simAtDisconnect>>

\* ---------------------------------------------------------- outbound sends
\* the guard of both sends: if (!this.socket || !this.isConnected) return false
SendAllowed == socket # NoSocket /\ isConnected

Emit(event, payload) == [ sock |-> socket, event |-> event, payload |-> payload ]

\* sendLocation(location) that also caches what it sent
SendLocationCaching(loc) ==
  /\ op' = IF SendAllowed
             THEN [ Op("sendLocation") EXCEPT !.arg = loc, !.ret = "true",
                       !.emits = << Emit("updateLocation", loc) >> ]
             ELSE [ Op("sendLocation") EXCEPT !.arg = loc, !.ret = "false" ]
  /\ currentLocation' = IF SendAllowed THEN loc ELSE currentLocation
  /\ UNCHANGED <<socket, isConnected, listeners, reconnectAttempts, demoMode,
                 demo, env, produced, curSeq, handles, unsubbed, throwers, simAtDisconnect>>

\* sendLocation(location)
SendLocation(loc) ==
  /\ op' = IF SendAllowed
             THEN [ Op("sendLocation") EXCEPT !.arg = loc, !.ret = "true",
                       !.emits = << Emit("updateLocation", loc) >> ]
             ELSE [ Op("sendLocation") EXCEPT !.arg = loc, !.ret = "false" ]
  /\ UNCHANGED <<svc, demo, env, produced, curSeq, handles, unsubbed, throwers, simAtDisconnect>>

\* sendBroadcastStatus(isActive)
SendBroadcastStatus(isActive) ==
  /\ op' = IF SendAllowed
             THEN [ Op("sendBroadcastStatus") EXCEPT !.arg = isActive, !.ret = "true",
                       !.emits = << Emit("broadcastStatus", [isActive |-> isActive]) >> ]
             ELSE [ Op("sendBroadcastStatus") EXCEPT !.arg = isActive, !.ret = "false" ]
  /\ UNCHANGED <<svc, demo, env, produced, curSeq, handles, unsubbed, throwers, simAtDisconnect>>

\* getConnectionStatus() and getCurrentLocation()
GetConnectionStatus == isConnected
GetCurrentLocation == currentLocation

\* isDemoMode()
IsDemoMode == demoMode

Bool(b) == IF b THEN "true" ELSE "false"

\* a caller reads the status, the cached location or the demo flag
QueryConnectionStatus ==
  /\ op' = [ Op("getConnectionStatus") EXCEPT !.ret = Bool(GetConnectionStatus) ]
  /\ UNCHANGED <<svc, demo, env, produced, curSeq, handles, unsubbed, throwers, simAtDisconnect>>

QueryCurrentLocation ==
  /\ op' = [ Op("getCurrentLocation") EXCEPT !.ret = GetCurrentLocation ]
  /\ UNCHANGED <<svc, demo, env, produced, curSeq, handles, unsubbed, throwers, simAtDisconnect>>

QueryDemoMode ==
  /\ op' = [ Op("isDemoMode") EXCEPT !.ret = Bool(IsDemoMode) ]
  /\ UNCHANGED <<svc, demo, env, produced, curSeq, handles, unsubbed, throwers, simAtDisconnect>>

\* ------------------------------------------------------------- subscription
\* subscribe(callback) called from outside a fan-out; the replayed callback
\* returns or raises
Subscribe(c, threw) ==
  /\ Len(listeners) < MaxListeners
  /\ threw => currentLocation # NoLoc
  /\ LET S == SubIn(Subs, c, currentLocation, curSeq, threw)
     IN  /\ Fanned(S)
         /\ op' = [ Op("subscribe") EXCEPT !.cb = c, !.calls = S.calls, !.threw = threw,
                       !.ret = IF threw THEN "none" ELSE "unsubscribe" ]
  /\ UNCHANGED <<socket, isConnected, reconnectAttempts, currentLocation, demoMode,
                 demo, env, produced, curSeq, simAtDisconnect>>

\* the closure subscribe(c) returned, called from outside a fan-out; the record
\* notes whether it had been called before, with c not subscribed again since
Unsubscribe(c) ==
  /\ c \in handles
  /\ Fanned(UnsubIn(Subs, c))
  /\ op' = [ Op("unsubscribe") EXCEPT !.cb = c,
                !.arg = IF c \in unsubbed THEN "repeated" ELSE "first",
                !.removed = Len(listeners) - Len(listeners') ]
  /\ UNCHANGED <<socket, isConnected, reconnectAttempts, currentLocation, demoMode,
                 demo, env, produced, curSeq, simAtDisconnect>>

\* -------------------------------------------------------- transport events
Pending(s) == socks[s] \in {"opening", "reopening"}

\* socket.on('connect') and socket.on('reconnect'): the same two assignments
OnUp(s, name) ==
  /\ op' = Op(name)
  /\ socks' = [ socks EXCEPT ![s] = "connected" ]
  /\ everUp' = TRUE
  /\ isConnected' = TRUE
  /\ reconnectAttempts' = 0
  /\ UNCHANGED <<socket, listeners, currentLocation, demoMode, demo, nextSock, timers,
                 produced, curSeq, handles, unsubbed, throwers, simAtDisconnect>>

TConnect(s) == socks[s] = "opening" /\ OnUp(s, "connect_event")

TReconnect(s) == socks[s] = "reopening" /\ OnUp(s, "reconnect_event")

\* data.timestamp || new Date().toISOString()
Truthy(ts) == ts.kind # "absent" /\ ~(ts.kind = "num" /\ ts.t = 0)

\* the handler spreading the event's data into the object it caches: { ...data,
\* timestamp, accuracy }
ReceivedSpread(data, now) ==
  [ f \in DOMAIN data \cup {"timestamp", "accuracy"} |->
      CASE f = "timestamp" -> IF Truthy(data.timestamp) THEN data.timestamp ELSE TsIso(now)
        [] f = "accuracy" -> IF data.accuracy \in {AccUndef, AccNull, 0} THEN AccNull
                                                                       ELSE data.accuracy
        [] OTHER -> data[f] ]

\* the default of the handler taken from Date.now(), a number
ReceivedNumericDefault(data, now) ==
  [ latitude  |-> data.latitude,
    longitude |-> data.longitude,
    timestamp |-> IF Truthy(data.timestamp) THEN data.timestamp ELSE TsNum(now),
    accuracy  |-> IF data.accuracy \in {AccUndef, AccNull, 0} THEN AccNull ELSE data.accuracy ]

\* the object the location handler builds from the event's data at clock `now`
Received(data, now) ==
  [ latitude  |-> data.latitude,
    longitude |-> data.longitude,
    timestamp |-> IF Truthy(data.timestamp) THEN data.timestamp ELSE TsIso(now),
    accuracy  |-> IF data.accuracy \in {AccUndef, AccNull, 0} THEN AccNull ELSE data.accuracy ]

\* socket.on('location')
TLocation(s, data, script) ==
  /\ socks[s] = "connected"
  /\ produced < MaxSamples
  /\ produced' = produced + 1
  /\ curSeq' = produced + 1
  /\ currentLocation' = Received(data, produced + 1)
  /\ LET S == NotifyListeners(Received(data, produced + 1), produced + 1, script)
     IN  /\ Fanned(S)
         /\ op' = [ Op("location") EXCEPT !.sock = s, !.arg = data, !.calls = S.calls,
                                          !.subs = S.subs ]
  /\ UNCHANGED <<socket, isConnected, reconnectAttempts, demoMode, demo, env, simAtDisconnect>>

\* connect_error leaving the counter as it is
ErrorNotCounted(n) == n

\* this.reconnectAttempts++
ErrorCounted(n) == n + 1

\* socket.on('connect_error')
TConnectError(s) ==
  /\ Pending(s)
  /\ reconnectAttempts < MaxErrors
  /\ op' = Op("connect_error")
  /\ isConnected' = FALSE
  /\ reconnectAttempts' = ErrorCounted(reconnectAttempts)
  /\ UNCHANGED <<socket, listeners, currentLocation, demoMode, demo, env,
                 produced, curSeq, handles, unsubbed, throwers, simAtDisconnect>>

DisconnectReasons == {"io server disconnect", "transport close"}

\* socket.on('disconnect'): this.socket.connect() on a server-initiated one,
\* which raises when this.socket is null
TDisconnect(s, reason) ==
  /\ socks[s] = "connected"
  /\ isConnected' = FALSE
  /\ LET dropped == [ socks EXCEPT ![s] =
                        IF reason = "io server disconnect" THEN "idle" ELSE "reopening" ]
     IN  IF reason = "io server disconnect"
           THEN IF socket = NoSocket
                  THEN /\ socks' = dropped
                       /\ op' = [ Op("disconnect_event") EXCEPT !.sock = s, !.arg = reason,
                                                                  !.threw = TRUE ]
                  ELSE /\ socks' = [ dropped EXCEPT ![socket] = Reopened(@) ]
                       /\ op' = [ Op("disconnect_event") EXCEPT !.sock = s, !.arg = reason,
                                                                  !.manual = 1 ]
           ELSE /\ socks' = dropped
                /\ op' = [ Op("disconnect_event") EXCEPT !.sock = s, !.arg = reason ]
  /\ UNCHANGED <<socket, listeners, reconnectAttempts, currentLocation, demoMode, demo,
                 nextSock, timers, everUp, produced, curSeq, handles, unsubbed, throwers, simAtDisconnect>>

\* socket.on('reconnect_attempt'): logs
TReconnectAttempt(s) ==
  /\ Pending(s)
  /\ op' = Op("reconnect_attempt")
  /\ UNCHANGED <<svc, demo, env, produced, curSeq, handles, unsubbed, throwers, simAtDisconnect>>

\* socket.on('reconnect_failed'): the transport has given up
TReconnectFailed(s) ==
  /\ Pending(s)
  /\ op' = Op("reconnect_failed")
  /\ socks' = [ socks EXCEPT ![s] = "idle" ]
  /\ isConnected' = FALSE
  /\ UNCHANGED <<socket, listeners, reconnectAttempts, currentLocation, demoMode, demo,
                 nextSock, timers, everUp, produced, curSeq, handles, unsubbed, throwers, simAtDisconnect>>

\* ---------------------------------------------------------------- simulator
\* the object enableDemoMode builds, at its start and on every tick
DemoSample(lat, lon, now) ==
  [ latitude |-> lat, longitude |-> lon, timestamp |-> TsNum(now), demo |-> TRUE ]

IsDemo(loc) == "demo" \in DOMAIN loc /\ loc.demo

\* enableDemoMode() without its first sample: the flags and setInterval only,
\* the first sample left to the first tick
StartDemoSilent(timer, script) ==
  /\ demoMode' = TRUE
  /\ isConnected' = TRUE
  /\ demoPos' = [ lat |-> DemoStartLat, lon |-> DemoStartLon, dir |-> 1 ]
  /\ demoInterval' = TRUE
  /\ intervals' = intervals + 1
  /\ op' = [ Op("graceTimer") EXCEPT !.sock = timer ]
  /\ UNCHANGED <<produced, curSeq, currentLocation, listeners, handles, unsubbed, throwers>>

\* enableDemoMode() past its guard: the flags, the first sample, setInterval
StartDemo(timer, script) ==
  /\ produced < MaxSamples
  /\ demoMode' = TRUE
  /\ isConnected' = TRUE
  /\ demoPos' = [ lat |-> DemoStartLat, lon |-> DemoStartLon, dir |-> 1 ]
  /\ demoInterval' = TRUE
  /\ intervals' = intervals + 1
  /\ produced' = produced + 1
  /\ curSeq' = produced + 1
  /\ currentLocation' = DemoSample(DemoStartLat, DemoStartLon, produced + 1)
  /\ LET S == NotifyListeners(DemoSample(DemoStartLat, DemoStartLon, produced + 1),
                               produced + 1, script)
     IN  /\ Fanned(S)
         /\ op' = [ Op("graceTimer") EXCEPT !.sock = timer, !.calls = S.calls,
                                            !.subs = S.subs ]

\* enableDemoMode() without its guard
AlreadyDemoUnguarded == FALSE

\* the guard of enableDemoMode(): if (this.demoMode) return
AlreadyDemo == demoMode

\* the setTimeout callback of connect(): if (!this.isConnected) this.enableDemoMode()
GraceTimer(s, script) ==
  /\ s \in timers
  /\ timers' = timers \ {s}
  /\ IF ~isConnected /\ ~AlreadyDemo
       THEN StartDemo(s, script)
       ELSE /\ script = [ i \in 1..Len(listeners) |-> Returns ]
            /\ op' = [ Op("graceTimer") EXCEPT !.sock = s ]
            /\ UNCHANGED <<demoMode, isConnected, demo, produced, curSeq, currentLocation,
                           listeners, handles, unsubbed, throwers>>
  /\ UNCHANGED <<socket, reconnectAttempts, socks, nextSock, everUp, simAtDisconnect>>

\* if (latitude > 25.85 || latitude < 25.75) direction *= -1, then the same for
\* the longitude
Bounced(lat, lon, dir) ==
  LET d1 == IF lat > DemoMaxLat \/ lat < DemoMinLat THEN -dir ELSE dir
  IN  IF lon > DemoMaxLon \/ lon < DemoMinLon THEN -d1 ELSE d1

\* the closure's variables after one tick that drew rlat, rlon
Stepped(p, rlat, rlon) ==
  [ lat |-> p.lat + rlat * p.dir,
    lon |-> p.lon + rlon * p.dir,
    dir |-> Bounced(p.lat + rlat * p.dir, p.lon + rlon * p.dir, p.dir) ]

\* the setInterval callback of enableDemoMode()
DemoTick(rlat, rlon, script) ==
  /\ intervals > 0
  /\ produced < MaxSamples
  /\ demoPos' = Stepped(demoPos, rlat, rlon)
  /\ produced' = produced + 1
  /\ curSeq' = produced + 1
  /\ currentLocation' = DemoSample(demoPos'.lat, demoPos'.lon, produced + 1)
  /\ LET S == NotifyListeners(DemoSample(demoPos'.lat, demoPos'.lon, produced + 1),
                               produced + 1, script)
     IN  /\ Fanned(S)
         /\ op' = [ Op("demoTick") EXCEPT !.calls = S.calls, !.subs = S.subs ]
  /\ UNCHANGED <<socket, isConnected, reconnectAttempts, demoMode, demoInterval,
                 intervals, env, simAtDisconnect>>

\* ------------------------------------------------------------ specification
\* the whole life cycle: two transports, callbacks that return or raise
Next ==
  \/ /\ \E e \in BOOLEAN : Connect(e)
     /\ UNCHANGED views
  \/ /\ Disconnect
     /\ UNCHANGED views
  \/ /\ Reconnect
     /\ UNCHANGED views
  \/ /\ \E loc \in OutLocs : SendLocation(loc)
     /\ UNCHANGED views
  \/ /\ \E b \in BOOLEAN : SendBroadcastStatus(b)
     /\ UNCHANGED views
  \/ /\ \E c \in 1..LifecycleCallbacks, threw \in BOOLEAN : Subscribe(c, threw)
     /\ UNCHANGED views
  \/ /\ \E c \in 1..LifecycleCallbacks : Unsubscribe(c)
     /\ UNCHANGED views
  \/ /\ \E s \in SocketIds : TConnect(s)
     /\ UNCHANGED views
  \/ /\ \E s \in SocketIds : TReconnect(s)
     /\ UNCHANGED views
  \/ /\ \E s \in SocketIds, d \in InData, script \in Scripts(PlainReactions) :
           TLocation(s, d, script)
     /\ UNCHANGED views
  \/ /\ \E s \in SocketIds : TConnectError(s)
     /\ UNCHANGED views
  \/ /\ \E s \in SocketIds, r \in DisconnectReasons : TDisconnect(s, r)
     /\ UNCHANGED views
  \/ /\ \E s \in SocketIds : TReconnectAttempt(s)
     /\ UNCHANGED views
  \/ /\ \E s \in SocketIds : TReconnectFailed(s)
     /\ UNCHANGED views
  \/ /\ \E s \in SocketIds, script \in Scripts(PlainReactions) : GraceTimer(s, script)
     /\ UNCHANGED views
  \/ /\ \E r1 \in RandSteps, r2 \in RandSteps, script \in Scripts(PlainReactions) :
           DemoTick(r1, r2, script)
     /\ UNCHANGED views

Spec == Init /\ [][Next]_vars

\* the life cycle with the callers that read the service
NextQueries ==
  \/ Next
  \/ /\ QueryConnectionStatus
     /\ UNCHANGED views
  \/ /\ QueryCurrentLocation
     /\ UNCHANGED views
  \/ /\ QueryDemoMode
     /\ UNCHANGED views

SpecQueries == Init /\ [][NextQueries]_vars

\* one transport, several callbacks, which also subscribe and unsubscribe
NextReentrant ==
  \/ /\ \E e \in BOOLEAN : Connect(e) /\ nextSock' <= ReentrantSockets
     /\ UNCHANGED views
  \/ /\ Disconnect
     /\ UNCHANGED views
  \/ /\ Reconnect
     /\ UNCHANGED views
  \/ /\ \E loc \in OutLocs : SendLocation(loc)
     /\ UNCHANGED views
  \/ /\ \E b \in BOOLEAN : SendBroadcastStatus(b)
     /\ UNCHANGED views
  \/ /\ \E c \in Callbacks, threw \in BOOLEAN : Subscribe(c, threw)
     /\ UNCHANGED views
  \/ /\ \E c \in Callbacks : Unsubscribe(c)
     /\ UNCHANGED views
  \/ /\ \E s \in SocketIds : TConnect(s)
     /\ UNCHANGED views
  \/ /\ \E s \in SocketIds : TReconnect(s)
     /\ UNCHANGED views
  \/ /\ \E s \in SocketIds, d \in InData, script \in Scripts(Reactions) :
           TLocation(s, d, script)
     /\ UNCHANGED views
  \/ /\ \E s \in SocketIds : TConnectError(s)
     /\ UNCHANGED views
  \/ /\ \E s \in SocketIds, r \in DisconnectReasons : TDisconnect(s, r)
     /\ UNCHANGED views
  \/ /\ \E s \in SocketIds : TReconnectAttempt(s)
     /\ UNCHANGED views
  \/ /\ \E s \in SocketIds : TReconnectFailed(s)
     /\ UNCHANGED views
  \/ /\ \E s \in SocketIds, script \in Scripts(Reactions) : GraceTimer(s, script)
     /\ UNCHANGED views
  \/ /\ \E r1 \in RandSteps, r2 \in RandSteps, script \in Scripts(Reactions) :
           DemoTick(r1, r2, script)
     /\ UNCHANGED views

SpecReentrant == Init /\ [][NextReentrant]_vars

\* the simulator some ticks after its start: connect(url, true) was called, the
\* grace timer fired with the transport still opening, and the walk, which
\* moves less than 0.001 degree a tick, has come near the northern or the
\* eastern limit, with either direction
WalkStarts ==
  { [lat |-> la, lon |-> lo, dir |-> d] :
      la \in {DemoStartLat, DemoMaxLat - WalkMargin, DemoMaxLat},
      lo \in {DemoStartLon, DemoMaxLon - WalkMargin, DemoMaxLon},
      d \in {1, -1} }

InitWalk ==
  /\ demoPos \in WalkStarts
  /\ socket = 1
  /\ isConnected = TRUE
  /\ listeners = << >>
  /\ reconnectAttempts = 0
  /\ currentLocation = DemoSample(demoPos.lat, demoPos.lon, 0)
  /\ demoMode = TRUE
  /\ demoInterval = TRUE
  /\ intervals = 1
  /\ socks = [ s \in SocketIds |-> IF s = 1 THEN "opening" ELSE "none" ]
  /\ nextSock = 1
  /\ timers = {}
  /\ produced = 0
  /\ curSeq = 0
  /\ handles = {}
  /\ unsubbed = {}
  /\ throwers = {}
  /\ everUp = FALSE
  /\ simAtDisconnect = FALSE
  /\ op = Op("init")
  /\ screen = NoScreen
  /\ marker = NoMarker
  /\ perm = NoPerm
  /\ admin = NoAdmin
  /\ form = NoForm

NextWalk ==
  \/ /\ \E c \in 1..LifecycleCallbacks : Subscribe(c, FALSE)
     /\ UNCHANGED views
  \/ /\ \E r1 \in RandSteps, r2 \in RandSteps, script \in Scripts(PlainReactions) :
           DemoTick(r1, r2, script)
     /\ UNCHANGED views

SpecWalk == InitWalk /\ [][NextWalk]_vars

\* ------------------------------------------------------------- Map screen
\* the callback function the screen's effect subscribes
ScreenCallback == 1

\* the screen's callback does not raise
Quiet == [ i \in 1..Len(listeners) |-> Returns ]

\* the calls of the screen's callback among cs
ScreenCalls(cs) == SelectSeq(cs, LAMBDA k : k.cb = ScreenCallback)

\* the callback: setIsConnecting(false), setConnectionError(false),
\* setTruckLocation(location), once for every call
Heard(scr, cs) ==
  IF ScreenCalls(cs) = << >> THEN scr
  ELSE [ scr EXCEPT !.isConnecting = FALSE,
                    !.connectionError = FALSE,
                    !.truckLocation = ScreenCalls(cs)[Len(ScreenCalls(cs))].loc ]

\* the isConnecting the interval's closure reads: the effect runs once (its
\* dependency list is empty), so its closures keep the constant of the first
\* render, useState(true)
ClosureIsConnecting == TRUE

\* the effect of a new screen, first half: LocationService.connect(url)
MapMountConnect ==
  /\ screen.phase = "unmounted"
  /\ Connect(TRUE)
  /\ screen' = [ NoScreen EXCEPT !.phase = "connecting" ]
  /\ UNCHANGED <<marker, perm, admin, form>>

\* the effect, second half: LocationService.subscribe(callback), which may
\* replay a cached location, and setInterval
MapMountSubscribe ==
  /\ screen.phase = "connecting"
  /\ Subscribe(ScreenCallback, FALSE)
  /\ screen' = [ Heard(screen, op'.calls) EXCEPT !.phase = "mounted", !.interval = TRUE ]
  /\ UNCHANGED <<marker, perm, admin, form>>

\* between the runs of the effect and of its cleanup, which are synchronous
Settled == screen.phase \in {"unmounted", "mounted"}

\* what the transport and the timers do while the screen exists or after it is
\* gone, the screen's callback being called by the fan-outs
MapEvent(A) ==
  /\ Settled
  /\ A
  /\ screen' = Heard(screen, op'.calls)
  /\ UNCHANGED <<marker, perm, admin, form>>

\* the setInterval callback of the effect, every 5000 ms:
\* if (!LocationService.getConnectionStatus() && !isConnecting) setConnectionError(true)
ConnectionCheck ==
  /\ screen.phase = "mounted"
  /\ screen.interval
  /\ screen' = IF ~GetConnectionStatus /\ ~ClosureIsConnecting
                 THEN [ screen EXCEPT !.connectionError = TRUE ]
                 ELSE screen
  /\ op' = Op("connectionCheck")
  /\ UNCHANGED <<svc, demo, env, produced, curSeq, handles, unsubbed, throwers,
                 simAtDisconnect, marker, perm, admin, form>>

\* the cleanup of the effect, first part: unsubscribe(), clearInterval
MapUnmountUnsubscribe ==
  /\ screen.phase = "mounted"
  /\ Unsubscribe(ScreenCallback)
  /\ screen' = [ screen EXCEPT !.phase = "unmounting", !.interval = FALSE ]
  /\ UNCHANGED <<marker, perm, admin, form>>

\* the cleanup, last part: LocationService.disconnect(); the screen is gone
MapUnmountDisconnect ==
  /\ screen.phase = "unmounting"
  /\ Disconnect
  /\ screen' = NoScreen
  /\ UNCHANGED <<marker, perm, admin, form>>

\* the connection banners of the render
ShowsConnecting == screen.phase = "mounted" /\ screen.isConnecting
ShowsConnectionLost == screen.phase = "mounted" /\ screen.connectionError

NextMap ==
  \/ MapMountConnect
  \/ MapMountSubscribe
  \/ ConnectionCheck
  \/ MapUnmountUnsubscribe
  \/ MapUnmountDisconnect
  \/ \E s \in SocketIds : MapEvent(TConnect(s))
  \/ \E s \in SocketIds : MapEvent(TReconnect(s))
  \/ \E s \in SocketIds, d \in InData : MapEvent(TLocation(s, d, Quiet))
  \/ \E s \in SocketIds : MapEvent(TConnectError(s))
  \/ \E s \in SocketIds, r \in DisconnectReasons : MapEvent(TDisconnect(s, r))
  \/ \E s \in SocketIds : MapEvent(TReconnectFailed(s))
  \/ \E s \in SocketIds : MapEvent(GraceTimer(s, Quiet))
  \/ \E r1 \in RandSteps, r2 \in RandSteps : MapEvent(DemoTick(r1, r2, Quiet))

SpecMap == Init /\ [][NextMap]_vars

\* ------------------------------------------------------------- TruckMarker
\* the numbers a coordinate's field is drawn from, 0 among them
MarkerValues == (0 - MarkerRange)..MarkerRange

\* the prop is undefined
Undefined == [undefined |-> TRUE]

\* the coordinate props: null, undefined, and the objects with or without a
\* latitude and a longitude
Coordinates ==
  {NoLoc, Undefined}
    \cup UNION { [ D -> MarkerValues ] : D \in SUBSET {"latitude", "longitude"} }

\* !x of a prop: it is null or undefined
Nullish(c) == c \in {NoLoc, Undefined}

\* !coordinate.f: the field is missing (undefined) or the number 0
FalsyField(c, f) == f \notin DOMAIN c \/ c[f] = 0

\* what the component returns: null, or a Marker at the coordinate
TruckMarker(coordinate) ==
  IF Nullish(coordinate) \/ FalsyField(coordinate, "latitude")
                        \/ FalsyField(coordinate, "longitude")
    THEN [ rendered |-> FALSE ]
    ELSE [ rendered |-> TRUE,
           coordinate |-> [ latitude |-> coordinate.latitude,
                            longitude |-> coordinate.longitude ] ]

\* a parent renders <TruckMarker coordinate={c} />
RenderMarker(c) ==
  /\ marker' = [ coordinate |-> c, output |-> TruckMarker(c) ]
  /\ op' = Op("renderMarker")
  /\ UNCHANGED <<svc, demo, env, produced, curSeq, handles, unsubbed, throwers,
                 simAtDisconnect, screen, perm, admin, form>>

NextMarker == \E c \in Coordinates : RenderMarker(c)

SpecMarker == Init /\ [][NextMarker]_vars

\* ---------------------------------------------------- location permissions
\* a promise of the platform that rejects
Rejected == [rejected |-> TRUE]

\* what Location.getForegroundPermissionsAsync() settles to: a status, a
\* value with no status to destructure, or a rejection
PermissionOutcomes ==
  { [status |-> st] : st \in {"granted", "denied", "undetermined"} }
    \cup {NoLoc, Rejected}

PosValues == (0 - PosRange)..PosRange
PosAccuracies == {10}

\* the coords of a platform position; accuracy may be missing, and the
\* platform reports more than the three fields
PosCoords ==
  [ latitude : PosValues, longitude : PosValues, altitude : {0} ]
    \cup [ latitude : PosValues, longitude : PosValues, altitude : {0},
           accuracy : PosAccuracies ]

\* what Location.getCurrentPositionAsync() settles to: a position, a value
\* without coords, or a rejection
PositionOutcomes ==
  { [coords |-> c] : c \in PosCoords } \cup {NoLoc, Rejected}

\* awaiting the outcome throws: a rejection, or a property read on null
Throws(outcome, field) == outcome = Rejected \/ field \notin DOMAIN outcome

\* checkLocationPermission() without the comparison with 'granted'
CheckLocationPermissionLax(outcome) == ~Throws(outcome, "status")

\* checkLocationPermission(): status === 'granted', false when it throws
CheckLocationPermission(outcome) ==
  IF Throws(outcome, "status") THEN FALSE ELSE outcome.status = "granted"

\* the object getCurrentLocation() builds from location.coords; a field the
\* coords lack is undefined
Picked(coords) ==
  [ f \in {"latitude", "longitude", "accuracy"} \cap DOMAIN coords |-> coords[f] ]

Resolved(v) == [ state |-> "resolved", value |-> v ]

\* getCurrentLocation() of the permissions utility is called
PermGetCurrentLocation ==
  /\ perm.pc \in {"idle", "done"}
  /\ perm' = [ NoPerm EXCEPT !.pc = "checking" ]
  /\ op' = Op("permGetCurrentLocation")
  /\ UNCHANGED <<svc, demo, env, produced, curSeq, handles, unsubbed, throwers,
                 simAtDisconnect, screen, marker, admin, form>>

\* the permission check settles: null without permission, else the position
\* is asked for
PermissionSettles(outcome) ==
  /\ perm.pc = "checking"
  /\ perm' = IF ~CheckLocationPermission(outcome)
               THEN [ perm EXCEPT !.pc = "done", !.permission = outcome,
                                  !.result = Resolved(NoLoc) ]
               ELSE [ perm EXCEPT !.pc = "locating", !.permission = outcome,
                                  !.positionCalls = @ + 1 ]
  /\ op' = Op("permissionSettles")
  /\ UNCHANGED <<svc, demo, env, produced, curSeq, handles, unsubbed, throwers,
                 simAtDisconnect, screen, marker, admin, form>>

\* the position call settles: the three fields, or null from the catch
PositionSettles(outcome) ==
  /\ perm.pc = "locating"
  /\ perm' = [ perm EXCEPT
        !.pc = "done", !.position = outcome,
        !.result = IF Throws(outcome, "coords")
                     THEN Resolved(NoLoc)
                     ELSE Resolved(Picked(outcome.coords)) ]
  /\ op' = Op("positionSettles")
  /\ UNCHANGED <<svc, demo, env, produced, curSeq, handles, unsubbed, throwers,
                 simAtDisconnect, screen, marker, admin, form>>

NextPermissions ==
  \/ PermGetCurrentLocation
  \/ \E outcome \in PermissionOutcomes : PermissionSettles(outcome)
  \/ \E outcome \in PositionOutcomes : PositionSettles(outcome)

SpecPermissions == Init /\ [][NextPermissions]_vars

\* ------------------------------------------- Admin screen over the Map screen
\* the callback function the Admin screen's effect subscribes
AdminCallback == 2

AdminCalls(cs) == SelectSeq(cs, LAMBDA k : k.cb = AdminCallback)

\* the callback: setCurrentLocation(location)
AdminHeard(adm, cs) ==
  IF AdminCalls(cs) = << >> THEN adm
  ELSE [ adm EXCEPT !.currentLocation = AdminCalls(cs)[Len(AdminCalls(cs))].loc ]

\* the Admin screen is pushed over the Map screen, which stays mounted; the
\* effect of the new screen, first half: LocationService.connect(url)
AdminMountConnect ==
  /\ screen.phase = "mounted"
  /\ admin.phase = "unmounted"
  /\ Connect(TRUE)
  /\ admin' = [ Outliving(admin, NoAdmin) EXCEPT !.phase = "connecting" ]
  /\ UNCHANGED <<screen, marker, perm, form>>

\* the effect, second half: setInterval and LocationService.subscribe(callback)
AdminMountSubscribe ==
  /\ admin.phase = "connecting"
  /\ Subscribe(AdminCallback, FALSE)
  /\ admin' = [ AdminHeard(admin, op'.calls) EXCEPT !.phase = "mounted", !.interval = TRUE ]
  /\ UNCHANGED <<screen, marker, perm, form>>

\* neither screen is in the middle of its effect or of its cleanup
BothSettled == Settled /\ admin.phase \in {"unmounted", "mounted"}

\* what the transport and the timers do, the callbacks of both screens being
\* called by the fan-outs
AppEvent(A) ==
  /\ BothSettled
  /\ A
  /\ screen' = Heard(screen, op'.calls)
  /\ admin' = AdminHeard(admin, op'.calls)
  /\ UNCHANGED <<marker, perm, form>>

\* the setInterval callback of the effect, every 1000 ms:
\* setIsConnected(LocationService.getConnectionStatus())
CheckConnection ==
  /\ admin.phase = "mounted"
  /\ admin.interval
  /\ BothSettled
  /\ admin' = [ admin EXCEPT !.isConnected = GetConnectionStatus ]
  /\ op' = Op("checkConnection")
  /\ UNCHANGED <<svc, demo, env, produced, curSeq, handles, unsubbed, throwers,
                 simAtDisconnect, screen, marker, perm, form>>

\* the screen is popped; the cleanup of the effect, first part: unsubscribe(),
\* clearInterval
AdminUnmountUnsubscribe ==
  /\ admin.phase = "mounted"
  /\ BothSettled
  /\ Unsubscribe(AdminCallback)
  /\ admin' = [ admin EXCEPT !.phase = "unmounting", !.interval = FALSE ]
  /\ UNCHANGED <<screen, marker, perm, form>>

\* the locationWatcher the cleanup's closure reads: the effect runs once (its
\* dependency list is empty), so the cleanup keeps the constant of the first
\* render, useState(null)
ClosureLocationWatcher == 0

\* the cleanup, last part: if (locationWatcher) locationWatcher.remove(), then
\* LocationService.disconnect(); the screen is gone
AdminUnmountDisconnect ==
  /\ admin.phase = "unmounting"
  /\ Disconnect
  /\ admin' = [ Outliving(admin, NoAdmin) EXCEPT
                  !.everLeft = TRUE,
                  !.watchers = IF ClosureLocationWatcher # 0
                                 THEN @ \ {ClosureLocationWatcher} ELSE @ ]
  /\ UNCHANGED <<screen, marker, perm, form>>

\* the Map screen is the stack's first route and stays mounted under the
\* Admin screen
NextApp ==
  \/ MapMountConnect
  \/ MapMountSubscribe
  \/ BothSettled /\ ConnectionCheck
  \/ AdminMountConnect
  \/ AdminMountSubscribe
  \/ CheckConnection
  \/ AdminUnmountUnsubscribe
  \/ AdminUnmountDisconnect
  \/ \E s \in SocketIds : AppEvent(TConnect(s))
  \/ \E s \in SocketIds : AppEvent(TReconnect(s))
  \/ \E s \in SocketIds, d \in InData : AppEvent(TLocation(s, d, Quiet))
  \/ \E s \in SocketIds : AppEvent(TConnectError(s))
  \/ \E s \in SocketIds, r \in DisconnectReasons : AppEvent(TDisconnect(s, r))
  \/ \E s \in SocketIds : AppEvent(TReconnectFailed(s))
  \/ \E s \in SocketIds : AppEvent(GraceTimer(s, Quiet))
  \/ \E r1 \in RandSteps, r2 \in RandSteps : AppEvent(DemoTick(r1, r2, Quiet))

SpecApp == Init /\ [][NextApp]_vars

\* ------------------------------------------------ Admin screen: Auto-Update
\* sendLocationUpdate(lat, lng): the object handed to LocationService.sendLocation
LocationData(lat, lng) ==
  [ latitude |-> lat, longitude |-> lng, timestamp |-> TsNum(0), isBroadcasting |-> FALSE ]

\* stopAutoUpdate(), run by the effect of a render whose locationWatcher is lw:
\* if (locationWatcher) { locationWatcher.remove(); setLocationWatcher(null) }
Stopped(adm) ==
  [ adm EXCEPT !.watchers = @ \ {adm.locationWatcher}, !.locationWatcher = 0 ]

\* setAutoUpdate(false) and the effect it triggers when the value changes
SwitchedOff(adm) ==
  IF adm.autoUpdate THEN Stopped([ adm EXCEPT !.autoUpdate = FALSE ]) ELSE adm

\* the Auto-Update switch is turned on: the effect calls startAutoUpdate(),
\* which awaits the permission request
SwitchOn ==
  /\ admin.phase = "mounted"
  /\ BothSettled
  /\ ~admin.autoUpdate
  /\ admin.nextStart < MaxStarts
  /\ admin' = [ admin EXCEPT !.autoUpdate = TRUE,
                              !.nextStart = @ + 1,
                              !.starts[admin.nextStart + 1] = "permission" ]
  /\ op' = Op("switchOn")
  /\ UNCHANGED <<svc, demo, env, produced, curSeq, handles, unsubbed, throwers,
                 simAtDisconnect, screen, marker, perm, form>>

\* the switch is turned off: the effect calls stopAutoUpdate()
SwitchOff ==
  /\ admin.phase = "mounted"
  /\ BothSettled
  /\ admin.autoUpdate
  /\ admin' = SwitchedOff(admin)
  /\ op' = Op("switchOff")
  /\ UNCHANGED <<svc, demo, env, produced, curSeq, handles, unsubbed, throwers,
                 simAtDisconnect, screen, marker, perm, form>>

\* a state setter of a screen that is gone does nothing
IfMounted(adm, changed) == IF adm.phase = "unmounted" THEN adm ELSE changed

\* requestForegroundPermissionsAsync() settles for the start k: without the
\* permission (or on a rejection) an alert and setAutoUpdate(false); with it,
\* watchPositionAsync is called
PermissionAnswer(k, granted) ==
  /\ BothSettled
  /\ admin.starts[k] = "permission"
  /\ admin' = IF granted
                THEN [ admin EXCEPT !.starts[k] = "watching" ]
                ELSE [ IfMounted(admin, SwitchedOff(admin)) EXCEPT !.starts[k] = "done" ]
  /\ op' = [ Op("permissionAnswer") EXCEPT !.arg = k ]
  /\ UNCHANGED <<svc, demo, env, produced, curSeq, handles, unsubbed, throwers,
                 simAtDisconnect, screen, marker, perm, form>>

\* watchPositionAsync() settles for the start k: the platform watches from
\* now on, and setLocationWatcher(watcher); on a rejection an alert and
\* setAutoUpdate(false)
WatcherAnswer(k, started) ==
  /\ BothSettled
  /\ admin.starts[k] = "watching"
  /\ admin' = IF started
                THEN [ IfMounted(admin, [ admin EXCEPT !.locationWatcher = k ]) EXCEPT
                         !.starts[k] = "done", !.watchers = @ \cup {k} ]
                ELSE [ IfMounted(admin, SwitchedOff(admin)) EXCEPT !.starts[k] = "done" ]
  /\ op' = [ Op("watcherAnswer") EXCEPT !.arg = k ]
  /\ UNCHANGED <<svc, demo, env, produced, curSeq, handles, unsubbed, throwers,
                 simAtDisconnect, screen, marker, perm, form>>

\* an active watcher reports a position: sendLocationUpdate(latitude, longitude)
PositionUpdate(k) ==
  /\ BothSettled
  /\ k \in admin.watchers
  /\ admin.autoSends < MaxAutoSends
  /\ SendLocation(LocationData(257617, -801918))
  /\ admin' = [ admin EXCEPT !.autoSends = @ + 1 ]
  /\ UNCHANGED <<screen, marker, perm, form>>

\* the Admin screen, opened once over the Map screen, with its switch
NextAutoUpdate ==
  \/ MapMountConnect
  \/ MapMountSubscribe
  \/ ~admin.everLeft /\ AdminMountConnect
  \/ AdminMountSubscribe
  \/ AdminUnmountUnsubscribe
  \/ AdminUnmountDisconnect
  \/ SwitchOn
  \/ SwitchOff
  \/ \E k \in 1..MaxStarts, granted \in BOOLEAN : PermissionAnswer(k, granted)
  \/ \E k \in 1..MaxStarts, started \in BOOLEAN : WatcherAnswer(k, started)
  \/ \E k \in 1..MaxStarts : PositionUpdate(k)
  \/ \E s \in SocketIds : AppEvent(TConnect(s))

SpecAutoUpdate == Init /\ [][NextAutoUpdate]_vars

\* ------------------------------------------------- Admin screen: the form
\* the characters a field is typed from
Digits == {"0", "1", "8", "9"}
Chars  == Digits \cup {"-", ".", "x"}

\* what a field can hold
Texts == UNION { [ 1..n -> Chars ] : n \in 0..MaxText }

NaN == [ nan |-> TRUE, v |-> 0 ]
Num(v) == [ nan |-> FALSE, v |-> v ]

DigitValue(c) == CASE c = "0" -> 0 [] c = "1" -> 1 [] c = "8" -> 8 [] c = "9" -> 9

\* the end of the run of digits of t that starts at position p
RECURSIVE DigitsEnd(_, _)
DigitsEnd(t, p) ==
  IF p <= Len(t) /\ t[p] \in Digits THEN DigitsEnd(t, p + 1) ELSE p

\* the digits t[a..b-1] read as a decimal integer
RECURSIVE Decimal(_, _, _)
Decimal(t, a, b) ==
  IF a >= b THEN 0 ELSE Decimal(t, a, b - 1) * 10 + DigitValue(t[b - 1])

RECURSIVE Pow10(_)
Pow10(n) == IF n <= 0 THEN 1 ELSE 10 * Pow10(n - 1)

\* parseFloat(t) on these characters: an optional sign, digits, an optional
\* point and digits; what follows the longest such prefix is ignored, and a
\* prefix without a digit gives NaN.  The value is in units.
ParseFloat(t) ==
  LET p0   == IF Len(t) >= 1 /\ t[1] = "-" THEN 2 ELSE 1
      sign == IF p0 = 2 THEN -1 ELSE 1
      p1   == DigitsEnd(t, p0)
      dot  == p1 <= Len(t) /\ t[p1] = "."
      p2   == IF dot THEN DigitsEnd(t, p1 + 1) ELSE p1
      nfr  == IF dot THEN p2 - (p1 + 1) ELSE 0
  IN  IF p1 = p0 /\ nfr = 0 THEN NaN
      ELSE Num(sign * (Decimal(t, p0, p1) * Unit
                        + (IF nfr = 0 THEN 0
                           ELSE (Decimal(t, p1 + 1, p2) * Unit) \div Pow10(nfr))))

IsNaN(x) == x.nan

\* the validation with the isNaN test on the latitude alone; a comparison
\* with NaN is false
ValidationLatitudeOnly(lat, lng) ==
  IF IsNaN(lat) THEN "Invalid Input"
  ELSE IF lat.v < -LatLimit \/ lat.v > LatLimit THEN "Invalid Latitude"
  ELSE IF ~IsNaN(lng) /\ (lng.v < -LngLimit \/ lng.v > LngLimit) THEN "Invalid Longitude"
  ELSE "none"

\* the three tests of handleSendLocation: the alert it shows, or none
Validation(lat, lng) ==
  IF IsNaN(lat) \/ IsNaN(lng) THEN "Invalid Input"
  ELSE IF lat.v < -LatLimit \/ lat.v > LatLimit THEN "Invalid Latitude"
  ELSE IF lng.v < -LngLimit \/ lng.v > LngLimit THEN "Invalid Longitude"
  ELSE "none"

\* the user has typed into the two fields
InitForm ==
  /\ socket = NoSocket
  /\ isConnected = FALSE
  /\ listeners = << >>
  /\ reconnectAttempts = 0
  /\ currentLocation = NoLoc
  /\ demoMode = FALSE
  /\ demoInterval = FALSE
  /\ demoPos = [lat |-> 0, lon |-> 0, dir |-> 1]
  /\ intervals = 0
  /\ socks = [ s \in SocketIds |-> "none" ]
  /\ nextSock = 0
  /\ timers = {}
  /\ produced = 0
  /\ curSeq = 0
  /\ handles = {}
  /\ unsubbed = {}
  /\ throwers = {}
  /\ everUp = FALSE
  /\ simAtDisconnect = FALSE
  /\ op = Op("init")
  /\ screen = NoScreen
  /\ marker = NoMarker
  /\ perm = NoPerm
  /\ admin = NoAdmin
  /\ \E a \in Texts, b \in Texts :
        form = [ NoForm EXCEPT !.latitude = a, !.longitude = b ]

\* handleSendLocation up to its await: the validation, an alert or setIsSending(true)
HandleSendLocation ==
  /\ form.pc = "idle"
  /\ LET alert == Validation(ParseFloat(form.latitude), ParseFloat(form.longitude))
     IN  form' = IF alert # "none"
                   THEN [ form EXCEPT !.pc = "done", !.alert = alert ]
                   ELSE [ form EXCEPT !.pc = "saving", !.isSending = TRUE ]
  /\ op' = Op("handleSendLocation")
  /\ UNCHANGED <<svc, demo, env, produced, curSeq, handles, unsubbed, throwers,
                 simAtDisconnect, screen, marker, perm, admin>>

\* saveLocation has settled (it catches its errors): sendLocationUpdate(lat, lng)
SendAfterSave ==
  /\ form.pc = "saving"
  /\ SendLocation(LocationData(ParseFloat(form.latitude).v, ParseFloat(form.longitude).v))
  /\ form' = [ form EXCEPT !.pc = "sent", !.sends = @ + 1 ]
  /\ UNCHANGED <<screen, marker, perm, admin>>

\* the setTimeout of 500 ms: setIsSending(false) and the Success alert
SuccessTimer ==
  /\ form.pc = "sent"
  /\ form' = [ form EXCEPT !.pc = "done", !.isSending = FALSE, !.alert = "Success" ]
  /\ op' = Op("successTimer")
  /\ UNCHANGED <<svc, demo, env, produced, curSeq, handles, unsubbed, throwers,
                 simAtDisconnect, screen, marker, perm, admin>>

NextForm ==
  \/ HandleSendLocation
  \/ SendAfterSave
  \/ SuccessTimer

SpecForm == InitForm /\ [][NextForm]_vars

\* ------------------------------------------------------------------- claims
\* the channel's states, read off the service and its transport
Connected == socket # NoSocket /\ socks[socket] = "connected"

\* the simulator runs, the status is true and no transport has ever connected
SimulatedConnected == demoInterval /\ isConnected /\ ~everUp

FanOuts == {"location", "graceTimer", "demoTick"}

CallsTo(c) == { i \in DOMAIN op.calls : op.calls[i].cb = c }

\* C1: sendLocation(loc) returns false and emits nothing whenever the channel is
\* not Connected, and returns true and emits exactly one updateLocation event
\* carrying loc when it is Connected.
C1_SendLocationContract ==
  op.name = "sendLocation" =>
    IF Connected
      THEN /\ op.ret = "true"
           /\ op.emits = << [sock |-> socket, event |-> "updateLocation", payload |-> op.arg] >>
      ELSE /\ op.ret = "false"
           /\ op.emits = << >>

\* C2: while the channel is SimulatedConnected, sendLocation and
\* sendBroadcastStatus return false and emit no event on the transport.
C2_SimulatedNeverSends ==
  (op.name \in {"sendLocation", "sendBroadcastStatus"} /\ SimulatedConnected) =>
    (op.ret = "false" /\ op.emits = << >>)

\* C3: after the unsubscribe closure of cb has been called, cb is invoked zero
\* times for every sample produced later, whoever else is subscribed and also
\* when the closure was called by a callback during a fan-out.
C3_NoCallAfterUnsubscribe ==
  \A i \in DOMAIN op.calls : ~op.calls[i].late

\* the second sample is fanned out to a listener while a callback that was
\* unsubscribed before it is not called
C3_Witness ==
  /\ op.name \in FanOuts
  /\ op.calls # << >>
  /\ op.calls[1].seq = 2
  /\ \E c \in unsubbed : CallsTo(c) = {}

\* C4: subscribe(cb) calls cb exactly once, with the cached location, when there
\* is one, and not at all when there is none; cb is registered either way.
C4_SubscribeReplaysCache ==
  op.name = "subscribe" =>
    /\ listeners # << >>
    /\ listeners[Len(listeners)] = op.cb
    /\ IF currentLocation = NoLoc
         THEN op.calls = << >>
         ELSE /\ Len(op.calls) = 1
              /\ op.calls[1].cb = op.cb
              /\ op.calls[1].loc = currentLocation

C4_Witness ==
  /\ op.name = "subscribe"
  /\ currentLocation # NoLoc
  /\ Len(op.calls) = 1
  /\ op.calls[1].loc = currentLocation
  /\ op.cb \in Range(listeners)

\* C5: after disconnect() returns, from any state, getConnectionStatus() is
\* false, getCurrentLocation() is null, there are no subscribers and no
\* transport is held.
C5_DisconnectResets ==
  op.name = "disconnect" =>
    /\ GetConnectionStatus = FALSE
    /\ GetCurrentLocation = NoLoc
    /\ listeners = << >>
    /\ socket = NoSocket

\* disconnect() has returned and connect() has not been called since
AfterDisconnect == socket = NoSocket /\ nextSock > 0

\* C6: after disconnect() returns and until the next connect(), no firing of
\* the grace timer or of the simulator tick changes getConnectionStatus() or
\* getCurrentLocation().
C6_DisconnectCancelsTimers ==
  [][ (AfterDisconnect /\ op'.name \in {"graceTimer", "demoTick"}) =>
        (isConnected' = isConnected /\ currentLocation' = currentLocation) ]_vars

\* C7: once disconnect() was called with the simulator running (and tore the
\* transport down), no callback is invoked with a simulator sample until
\* connect() is called again.
C7_NoDemoSampleAfterDisconnect ==
  simAtDisconnect => \A i \in DOMAIN op.calls : ~IsDemo(op.calls[i].loc)

\* transports that were opened and not torn down
OpenTransports == { s \in SocketIds : socks[s] \notin {"none", "closed"} }

\* C8: at most one transport that has been opened and not torn down exists at
\* any time.
C8_OneTransport == Cardinality(OpenTransports) <= 1

\* the transport the service held when connect() was called was connected
ConnectedAtCall == op.sock # NoSocket /\ socks[op.sock] = "connected"

\* C9: connect() called while the channel is Connected or SimulatedConnected
\* opens no transport and arms no grace timer.
C9_ConnectIsNoOp ==
  (op.name = "connect" /\ (ConnectedAtCall \/ SimulatedConnected)) =>
    (op.opened = 0 /\ op.armed = 0)

\* disconnect() has not been called since the connect() that opened socket s
NoDisconnectSince(s) ==
  socket # NoSocket /\ \A t \in s..nextSock : socks[t] # "closed"

\* C10: when the grace timer of a connect() fires, its transport being the only
\* one open, no transport having connected and disconnect() not having been
\* called since, the status is true and the simulator runs with a demo sample
\* cached, the callbacks it called having received demo samples.
C10_GraceTimerStartsSimulator ==
  (/\ op.name = "graceTimer"
   /\ ~everUp
   /\ NoDisconnectSince(op.sock)
   /\ OpenTransports = {op.sock}) =>
    /\ GetConnectionStatus = TRUE
    /\ demoInterval
    /\ IsDemo(currentLocation)
    /\ \A i \in DOMAIN op.calls : IsDemo(op.calls[i].loc)

\* disconnect() has never torn a transport down
NeverTornDown == \A s \in SocketIds : socks[s] # "closed"

\* C11: while the simulator is active, from its activation until disconnect(),
\* getConnectionStatus() returns true after every event, transport
\* connect_error, disconnect and reconnect_failed events included.
C11_SimulatorKeepsStatus ==
  (demoInterval /\ NeverTornDown) => GetConnectionStatus = TRUE

\* f places the listeners ls, in their order, among the calls cs, each of them a
\* call of that listener with the location loc
InvokedInOrder(f, ls, cs, loc) ==
  /\ \A i, j \in DOMAIN ls : i < j => f[i] < f[j]
  /\ \A i \in DOMAIN ls : cs[f[i]].cb = ls[i] /\ cs[f[i]].loc = loc

\* C12: when a callback raises while a sample is fanned out, the handler of the
\* event does not raise, and every listener of the list the fan-out started on,
\* those after the failing one included, is invoked with that sample, in the
\* order of the list.
C12_ThrowDoesNotStopFanOut ==
  [][ (op'.name \in FanOuts /\ \E i \in DOMAIN op'.calls : op'.calls[i].threw) =>
        /\ ~op'.threw
        /\ \E f \in [ DOMAIN listeners -> DOMAIN op'.calls ] :
              InvokedInOrder(f, listeners, op'.calls, currentLocation') ]_vars

\* the first of two different listeners raised and the second was invoked with
\* the same sample
C12_Witness ==
  /\ op.name \in FanOuts
  /\ Len(op.calls) = 2
  /\ op.calls[1].threw
  /\ op.calls[2].cb # op.calls[1].cb
  /\ op.calls[2].seq = op.calls[1].seq
  /\ op.calls[2].loc = currentLocation

\* C13: subscribe(cb) never raises to its caller: in every state, also when a
\* location is cached and cb raises during the replay, subscribe returns the
\* unsubscribe closure.
C13_SubscribeNeverThrows ==
  op.name = "subscribe" => (~op.threw /\ op.ret = "unsubscribe")

\* C14: a callback that raised during a fan-out is not deregistered: in that
\* fan-out and in every later one, until it is unsubscribed or disconnect()
\* clears the list, it keeps its position in the list and is invoked with the
\* sample.
C14_ThrowerStaysRegistered ==
  [][ (op'.name \in FanOuts /\ produced' # produced) =>
        \A i \in DOMAIN listeners :
          listeners[i] \in throwers' =>
            /\ i \in DOMAIN listeners' /\ listeners'[i] = listeners[i]
            /\ i \in DOMAIN op'.calls
            /\ op'.calls[i].cb = listeners[i]
            /\ op'.calls[i].seq = produced' ]_vars

\* a callback that raised for an earlier sample is invoked with the second
\* sample, which it handles without raising, and is still in the list
C14_Witness ==
  /\ op.name \in FanOuts
  /\ op.calls # << >>
  /\ op.calls[1].seq = 2
  /\ \A i \in DOMAIN op.calls : ~op.calls[i].threw
  /\ op.calls[1].cb \in throwers
  /\ listeners[1] = op.calls[1].cb

\* the bounding box around the reference point
InBox(loc) ==
  /\ loc.latitude >= DemoMinLat /\ loc.latitude <= DemoMaxLat
  /\ loc.longitude >= DemoMinLon /\ loc.longitude <= DemoMaxLon

\* C15: every sample of the simulator, the first one and the one of each tick,
\* cached or handed to a callback, has its latitude in [25.75, 25.85] and its
\* longitude in [-80.25, -80.15].
C15_DemoSamplesInBox ==
  /\ IsDemo(currentLocation) => InBox(currentLocation)
  /\ \A i \in DOMAIN op.calls : IsDemo(op.calls[i].loc) => InBox(op.calls[i].loc)

\* C16: once the transport has reached Connected the simulator does not run:
\* while the channel is Connected no tick of the simulator fires, and so no
\* demo sample is cached or handed to a callback by one.
C16_NoTickWhileConnected ==
  Connected => op.name # "demoTick"

\* C17: the simulator is activated only by the firing of a grace timer that
\* connect() armed, and only while the channel is not Connected: never by a
\* connect() without enableSimulation, never by a timer that fires while the
\* transport is Connected.
C17_ActivatedOnlyByGraceTimer ==
  [][ (~demoInterval /\ demoInterval') =>
        /\ op'.name = "graceTimer"
        /\ op'.sock \in timers
        /\ ~Connected ]_vars

\* the arrival-time default of the location handler: new Date().toISOString()
\* at the arrival of the sample that is now cached
ArrivalDefault == TsIso(curSeq)

\* C18: after an inbound location event, getCurrentLocation() has the latitude
\* and the longitude of that event and a defined timestamp: the event's own
\* when it carried one, the arrival-time default when it carried none.
C18_CachesMostRecentEvent ==
  op.name = "location" =>
    /\ GetCurrentLocation # NoLoc
    /\ GetCurrentLocation.latitude = op.arg.latitude
    /\ GetCurrentLocation.longitude = op.arg.longitude
    /\ GetCurrentLocation.timestamp =
         IF op.arg.timestamp # TsAbsent THEN op.arg.timestamp ELSE ArrivalDefault

\* C19: samples reach the callbacks in the order they were produced: every
\* call an operation makes hands over the newest sample produced so far.  The
\* list is in registration order (subscribe appends, unsubscribe keeps the
\* order of the others) and a fan-out invokes the listeners of the list it
\* started on in the order of that list.
C19_DeliveryOrder ==
  [][ /\ \A i \in DOMAIN op'.calls : op'.calls[i].seq = produced'
      /\ op'.name = "subscribe" => listeners' = Append(listeners, op'.cb)
      /\ op'.name = "unsubscribe" =>
            \E f \in [ DOMAIN listeners' -> DOMAIN listeners ] :
              \A i, j \in DOMAIN listeners' :
                listeners'[i] = listeners[f[i]] /\ (i < j => f[i] < f[j])
      /\ (op'.name \in FanOuts /\ produced' # produced) =>
            \E f \in [ DOMAIN listeners -> DOMAIN op'.calls ] :
              InvokedInOrder(f, listeners, op'.calls, currentLocation') ]_vars

\* the second sample is fanned out to two different callbacks, the one that
\* was registered first being called first
C19_Witness ==
  /\ op.name \in FanOuts
  /\ Len(op.calls) = 2
  /\ op.calls[1].seq = 2 /\ op.calls[2].seq = 2
  /\ op.calls[1].cb # op.calls[2].cb
  /\ listeners = << op.calls[1].cb, op.calls[2].cb >>

\* C20: after a transport disconnect event the channel reports not connected;
\* for the reason 'io server disconnect' the handler re-issues connect exactly
\* once, on the transport that was disconnected, and for any other reason it
\* issues no connect.
C20_DisconnectEvent ==
  op.name = "disconnect_event" =>
    /\ GetConnectionStatus = FALSE
    /\ IF op.arg = "io server disconnect"
         THEN ~op.threw /\ op.manual = 1 /\ socket = op.sock
         ELSE op.manual = 0

\* C21: the reconnect-attempt counter counts the connect_error events since
\* the last connect or reconnect event: a connect_error sets the status to not
\* connected and adds exactly 1, a connect or reconnect event sets the counter
\* to 0, and nothing else changes it.
C21_AttemptCounter ==
  [][ /\ op'.name = "connect_error" =>
            (reconnectAttempts' = reconnectAttempts + 1 /\ ~GetConnectionStatus')
      /\ op'.name \in {"connect_event", "reconnect_event"} =>
            reconnectAttempts' = 0
      /\ op'.name \notin {"connect_error", "connect_event", "reconnect_event"} =>
            reconnectAttempts' = reconnectAttempts ]_vars

\* connect_error events are counted after a transport had connected: the
\* counter, reset by that connect event, has been raised again and the status
\* is false
C21_Witness ==
  /\ op.name = "connect_error"
  /\ everUp
  /\ reconnectAttempts = MaxErrors
  /\ ~GetConnectionStatus

\* C22: sendBroadcastStatus(isActive) returns false and emits nothing whenever
\* the channel is not Connected, and returns true and emits exactly one
\* broadcastStatus event carrying {isActive} when it is Connected.
C22_SendBroadcastStatusContract ==
  op.name = "sendBroadcastStatus" =>
    IF Connected
      THEN /\ op.ret = "true"
           /\ op.emits = << [sock |-> socket, event |-> "broadcastStatus",
                             payload |-> [isActive |-> op.arg]] >>
      ELSE /\ op.ret = "false"
           /\ op.emits = << >>

\* C23: calling the unsubscribe closure of cb again, cb not having been
\* subscribed again since its first call, changes nothing: the list is the one
\* the first call left, the other listeners still registered in their order.
C23_UnsubscribeIdempotent ==
  [][ (op'.name = "unsubscribe" /\ op'.cb \in unsubbed) =>
        (listeners' = listeners /\ op'.cb \notin Range(listeners')) ]_vars

\* the closure was called a second time while another callback is registered
C23_Witness ==
  /\ op.name = "unsubscribe"
  /\ op.arg = "repeated"
  /\ listeners # << >>
  /\ op.cb \notin Range(listeners)

Simulated == {"graceTimer", "demoTick"}

\* C24: a cached or delivered location carries demo: true if and only if the
\* simulator produced it.  An operation that produces a sample caches it and
\* hands that very object to the listeners, in the order of the list, by the
\* same fan-out whether the sample is the simulator's or an event's, and
\* the sample is tagged exactly when the operation is the simulator's; an
\* operation that produces none hands out only the cached object and leaves
\* the cache as it is or clears it.
C24_DemoTagMarksSimulator ==
  [][ IF produced' # produced
        THEN /\ IsDemo(currentLocation') <=> op'.name \in Simulated
             /\ \A i \in DOMAIN op'.calls : op'.calls[i].loc = currentLocation'
             /\ \E f \in [ DOMAIN listeners -> DOMAIN op'.calls ] :
                   InvokedInOrder(f, listeners, op'.calls, currentLocation')
        ELSE /\ \A i \in DOMAIN op'.calls : op'.calls[i].loc = currentLocation
             /\ currentLocation' \in {currentLocation, NoLoc} ]_vars

\* an event whose data carried demo: true was cached and delivered without
\* the tag
C24_Witness ==
  /\ op.name = "location"
  /\ IsDemo(op.arg)
  /\ ~IsDemo(currentLocation)
  /\ op.calls # << >>
  /\ ~IsDemo(op.calls[1].loc)

\* C26, as stated: when an inbound location event carries no timestamp, the
\* timestamp of the cached location is a number, the arrival time.
C26_DefaultTimestampNumeric ==
  (op.name = "location" /\ op.arg.timestamp = TsAbsent) =>
    GetCurrentLocation.timestamp = TsNum(curSeq)

\* C26, amended: when an inbound location event carries no timestamp, the
\* timestamp of the cached location is defined and is the arrival time as an
\* ISO-8601 string, not a number.
C26_DefaultTimestampIso ==
  (op.name = "location" /\ op.arg.timestamp = TsAbsent) =>
    /\ GetCurrentLocation # NoLoc
    /\ GetCurrentLocation.timestamp = TsIso(curSeq)
    /\ GetCurrentLocation.timestamp.kind # "num"

\* an event without a timestamp has been cached
C26_Witness ==
  /\ op.name = "location"
  /\ op.arg.timestamp = TsAbsent
  /\ GetCurrentLocation.latitude = op.arg.latitude
  /\ GetCurrentLocation.timestamp.kind = "iso"

\* C28: reconnect() issues connect exactly once, on the transport the service
\* holds and on no other, when it holds one; when it holds none (before
\* connect(), after disconnect()) it raises nothing and changes nothing.
C28_Reconnect ==
  [][ op'.name = "reconnect" =>
        /\ ~op'.threw
        /\ UNCHANGED <<svc, demo, nextSock, timers>>
        /\ IF socket # NoSocket
             THEN /\ op'.manual = 1
                  /\ \A s \in SocketIds \ {socket} : socks'[s] = socks[s]
                  /\ socks[socket] = "idle" => socks'[socket] = "opening"
             ELSE /\ op'.manual = 0
                  /\ socks' = socks ]_vars

\* reconnect() was called with a transport held, after one had connected, and
\* issued its connect; the transport is opening
C28_Witness ==
  /\ op.name = "reconnect"
  /\ op.manual = 1
  /\ socket # NoSocket
  /\ socks[socket] = "opening"
  /\ everUp

\* C30: the step that activates the simulator is the grace timer's, not a
\* tick: it caches the reference point (25.8010, -80.1994) tagged demo: true
\* and calls every registered listener once with it.  A callback subscribed
\* while the cache holds a sample of the simulator is called at once with it,
\* and it is the latest sample produced.
C30_ActivationPublishesStart ==
  [][ /\ (~demoInterval /\ demoInterval') =>
            /\ op'.name = "graceTimer"
            /\ GetCurrentLocation' = DemoSample(DemoStartLat, DemoStartLon, produced')
            /\ IsDemo(GetCurrentLocation')
            /\ Len(op'.calls) = Len(listeners)
            /\ \A i \in DOMAIN listeners :
                  op'.calls[i].cb = listeners[i] /\ op'.calls[i].loc = GetCurrentLocation'
      /\ (op'.name = "subscribe" /\ IsDemo(currentLocation)) =>
            /\ Len(op'.calls) = 1
            /\ op'.calls[1].cb = op'.cb
            /\ op'.calls[1].loc = currentLocation
            /\ op'.calls[1].seq = produced ]_vars

\* the activation has called a registered listener with the reference point
C30_Witness ==
  /\ op.name = "graceTimer"
  /\ op.calls # << >>
  /\ op.calls[1].loc.latitude = DemoStartLat
  /\ op.calls[1].loc.longitude = DemoStartLon
  /\ IsDemo(op.calls[1].loc)
  /\ demoPos.lat = DemoStartLat

\* C25: on the Map screen, once a first location has been received (the
\* connecting phase is over), a periodic check that finds
\* getConnectionStatus() false leaves the 'Connection lost' banner shown; the
\* case where the simulator has never run.
C25_ConnectionLostBanner ==
  (/\ op.name = "connectionCheck"
   /\ ~screen.isConnecting
   /\ ~GetConnectionStatus
   /\ ~demoMode) =>
    ShowsConnectionLost

\* the coordinate has a latitude and a longitude, both numbers
HasBoth(c) == ~Nullish(c) /\ {"latitude", "longitude"} \subseteq DOMAIN c

\* C27: TruckMarker renders a marker if and only if its coordinate has a
\* latitude and a longitude that are numbers, 0 included; it renders nothing
\* for a null or undefined coordinate or when a field is missing.
C27_MarkerRendersIffNumeric ==
  op.name = "renderMarker" =>
    (marker.output.rendered <=> HasBoth(marker.coordinate))

\* the platform granted foreground permission
Granted == ~Throws(perm.permission, "status") /\ perm.permission.status = "granted"

\* C29: getCurrentLocation() never rejects; without granted permission (or
\* when the permission check fails) it resolves to null and the position API
\* was never called; when the position call fails it resolves to null; and
\* otherwise it resolves to the latitude, longitude and accuracy of the
\* platform position.
C29_GetCurrentLocationNeverRejects ==
  /\ perm.result.state \in {"pending", "resolved"}
  /\ perm.pc = "done" =>
       /\ perm.result.state = "resolved"
       /\ ~Granted => perm.result.value = NoLoc /\ perm.positionCalls = 0
       /\ (Granted /\ Throws(perm.position, "coords")) =>
            perm.result.value = NoLoc /\ perm.positionCalls = 1
       /\ (Granted /\ ~Throws(perm.position, "coords")) =>
            /\ perm.positionCalls = 1
            /\ \A f \in {"latitude", "longitude", "accuracy"} :
                 /\ f \in DOMAIN perm.result.value <=> f \in DOMAIN perm.position.coords
                 /\ f \in DOMAIN perm.result.value =>
                      perm.result.value[f] = perm.position.coords[f]
            /\ DOMAIN perm.result.value \subseteq {"latitude", "longitude", "accuracy"}

\* C29 witness: all four outcomes are reached; this one is the denied
\* permission, resolved to null with the position API untouched.
C29_Witness ==
  /\ perm.pc = "done"
  /\ perm.permission = [status |-> "denied"]
  /\ perm.result = Resolved(NoLoc)
  /\ perm.positionCalls = 0

\* C32: over connect, disconnect, the firings of the grace timers and the
\* transport's events, at most one interval of the simulator is scheduled, and
\* one is scheduled exactly when the demo flag is set.
C32_OneSimulatorInterval ==
  /\ intervals <= 1
  /\ intervals = 1 <=> demoMode
  /\ demoInterval <=> demoMode

\* a second grace timer fired with the status false and the flag already set:
\* enableDemoMode returned at its guard, and one interval is scheduled
C32_Witness ==
  /\ op.name = "graceTimer"
  /\ op.sock = 2
  /\ ~isConnected
  /\ demoMode
  /\ intervals = 1

\* how many entries of the list are the callback c
Registrations(ls, c) == Cardinality({ i \in DOMAIN ls : ls[i] = c })

\* C33: when a callback is registered twice, one call of either unsubscribe
\* closure removes both registrations and leaves the other listeners as they
\* were; the callback is invoked for no sample produced after it, although the
\* other closure was never called.
C33_UnsubscribeRemovesEveryRegistration ==
  [][ /\ (op'.name = "unsubscribe" /\ Registrations(listeners, op'.cb) >= 2) =>
            /\ Registrations(listeners', op'.cb) = 0
            /\ listeners' = Filter(listeners, op'.cb)
            /\ op'.removed = Registrations(listeners, op'.cb)
      /\ op'.name \in FanOuts =>
            \A i \in DOMAIN op'.calls : op'.calls[i].cb \notin unsubbed ]_vars

\* one call of the closure took two registrations of the callback out
C33_Witness ==
  /\ op.name = "unsubscribe"
  /\ op.arg = "first"
  /\ op.removed = 2
  /\ op.cb \notin Range(listeners)

\* the calls of callback c an operation made
CallsOf(cs, c) == { i \in DOMAIN cs : cs[i].cb = c }

\* C34: when a listener calls subscribe(newCb) while a sample is fanned out,
\* newCb not being in the list the fan-out started on, that subscribe call
\* invokes newCb with the sample exactly once, by its replay of the cache, and
\* the fan-out in progress does not invoke newCb: every call of newCb is a
\* replay with that sample, and there is one for every subscribe call.
C34_SubscribeDuringFanOut ==
  [][ (op'.name \in FanOuts /\ produced' # produced) =>
        \A c \in Callbacks \ Range(listeners) :
          /\ Cardinality(CallsOf(op'.calls, c)) = Registrations(op'.subs, c)
          /\ c \in Range(listeners') => CallsOf(op'.calls, c) # {}
          /\ \A i \in CallsOf(op'.calls, c) :
               /\ op'.calls[i].replay
               /\ op'.calls[i].loc = currentLocation'
               /\ op'.calls[i].seq = produced' ]_vars

\* a listener subscribed another callback during a fan-out: the listener got
\* the sample from the fan-out, the new one from the replay, and both are
\* registered
C34_Witness ==
  /\ op.name \in FanOuts
  /\ Len(op.subs) = 1
  /\ Len(op.calls) = 2
  /\ ~op.calls[1].replay
  /\ op.calls[2].replay
  /\ op.calls[2].cb # op.calls[1].cb
  /\ op.calls[2].loc = currentLocation
  /\ listeners = << op.calls[1].cb, op.calls[2].cb >>

Readers ==
  {"sendLocation", "sendBroadcastStatus", "getConnectionStatus", "getCurrentLocation",
   "isDemoMode"}

\* C36: sendLocation, sendBroadcastStatus, getConnectionStatus,
\* getCurrentLocation and isDemoMode leave the connection flag, the cached
\* location, the listener list, the attempt counter and the demo flag as they
\* were, in every state; subscribe and the unsubscribe closure change nothing
\* of these but the listener list.  The getters return the field they read.
C36_ReadersFrame ==
  [][ /\ op'.name \in Readers =>
            UNCHANGED <<isConnected, currentLocation, listeners, reconnectAttempts, demoMode>>
      /\ op'.name \in {"subscribe", "unsubscribe"} =>
            UNCHANGED <<isConnected, currentLocation, reconnectAttempts, demoMode>>
      /\ op'.name = "getConnectionStatus" => op'.ret = Bool(isConnected)
      /\ op'.name = "getCurrentLocation" => op'.ret = currentLocation
      /\ op'.name = "isDemoMode" => op'.ret = Bool(demoMode) ]_vars

\* a location was sent on a connected transport while another location is
\* cached and a listener is registered
C36_Witness ==
  /\ op.name = "sendLocation"
  /\ op.ret = "true"
  /\ currentLocation # NoLoc
  /\ currentLocation # op.arg
  /\ listeners # << >>
  /\ Connected

\* the field's text parses to a number between lo and hi degrees
ParsesWithin(t, lo, hi) ==
  ~ParseFloat(t).nan /\ ParseFloat(t).v >= lo * Unit /\ ParseFloat(t).v <= hi * Unit

Acceptable == ParsesWithin(form.latitude, -90, 90) /\ ParsesWithin(form.longitude, -180, 180)

\* C37: handleSendLocation calls LocationService.sendLocation only when the
\* latitude and the longitude entered both parse to numbers with
\* -90 <= latitude <= 90 and -180 <= longitude <= 180, and then with those
\* numbers; for every other input it shows an alert and sends nothing.
C37_SendOnlyValidCoordinates ==
  /\ form.sends > 0 => Acceptable
  /\ op.name = "sendLocation" =>
       /\ Acceptable
       /\ op.arg.latitude = ParseFloat(form.latitude).v
       /\ op.arg.longitude = ParseFloat(form.longitude).v
  /\ (form.pc # "idle" /\ ~Acceptable) =>
       /\ form.pc = "done"
       /\ form.alert \in {"Invalid Input", "Invalid Latitude", "Invalid Longitude"}
       /\ form.sends = 0

\* a longitude past the limit, with a latitude on its limit, was refused
C37_Witness ==
  /\ form.pc = "done"
  /\ form.latitude = << "-", "9", "0" >>
  /\ form.longitude = << "1", "8", "1" >>
  /\ form.alert = "Invalid Longitude"
  /\ form.sends = 0

\* C31: with the Map screen and the Admin screen both mounted, the cleanup of
\* the Admin screen calls disconnect(), which empties the listener list, the
\* Map screen's callback with it, and tears down the transport the service
\* holds; after the Admin screen has unmounted the Map screen's callback is
\* not registered and is invoked for no sample, whatever is produced and
\* whether or not the Admin screen is opened again.
C31_AdminUnmountSilencesMap ==
  [][ /\ (admin.phase = "unmounting" /\ admin'.phase = "unmounted") =>
            /\ op'.name = "disconnect"
            /\ socket # NoSocket
            /\ listeners' = << >>
            /\ socket' = NoSocket
            /\ socks'[socket] = "closed"
      /\ admin'.everLeft =>
            /\ ScreenCallback \notin Range(listeners')
            /\ ScreenCalls(op'.calls) = << >>
            /\ screen'.truckLocation = screen.truckLocation ]_vars

\* the Map screen had a location, the Admin screen came and went, and a later
\* sample was produced and cached without the Map screen's callback being
\* called: the map still shows the old location
C31_Witness ==
  /\ admin.everLeft
  /\ screen.phase = "mounted"
  /\ op.name \in FanOuts
  /\ produced = 2
  /\ currentLocation # NoLoc
  /\ screen.truckLocation # NoLoc
  /\ screen.truckLocation # currentLocation
  /\ ScreenCalls(op.calls) = << >>

\* Auto-Update is off, or the Admin screen has unmounted
AutoUpdateOver ==
  \/ admin.phase = "mounted" /\ ~admin.autoUpdate
  \/ admin.phase = "unmounted" /\ admin.everLeft

\* C35: once Auto-Update has been switched off or the Admin screen has
\* unmounted, no position watcher is active and no automatic sendLocation call
\* is made, also when the switch was turned off before the watcher's start
\* had completed.
C35_NoWatcherAfterStop ==
  AutoUpdateOver => (admin.watchers = {} /\ op.name # "sendLocation")


====
